---------------------------- MODULE Spec2Model ----------------------------
(***************************************************************************)
(* A model of the nyaaan logger (src/src/lib.rs): the process-wide Logger  *)
(* singleton, its level filter, the emit path, init() and the panic hook.  *)
(* Strings are sequences of chunks: a chunk is a single white-space or     *)
(* punctuation character, or an opaque run of non-blank text without line  *)
(* breaks.                                                                 *)
(***************************************************************************)
EXTENDS Naturals, Sequences, FiniteSets

VARIABLES
    cell,           \* LOGGER: OnceLock<Logger> state: "uninit" | "running" | "init"
    created,        \* number of Logger::new executions so far
    log_level,      \* Logger.log_level  (the value inside the Mutex)
    crate_levels,   \* Logger.crate_levels (the Vec inside the Mutex)
    level_lock,     \* holder of the log_level Mutex, or NoThread
    table_lock,     \* holder of the crate_levels Mutex, or NoThread
    sink,           \* log crate: the registered logger: "none" | "nyaaan" | "other"
    max_level,      \* log crate: the maximum level filter
    hook,           \* the process-wide panic hook: 0 (default) or the id of the init() call that installed it
    hook_installs,  \* number of std::panic::set_hook executions so far
    init_calls,     \* number of init() calls started so far
    rust_log,       \* environment: RUST_LOG (Unset or a string)
    rust_backtrace, \* environment: RUST_BACKTRACE is set
    stderr_last,    \* the last line written to the diagnostic stream, or NoLine
    aborted,        \* the process aborted (a panic inside the panic hook)
    pc,             \* per thread: position in the code
    frame,          \* per thread: arguments, locals and return value
    seen            \* per thread, ghost: the values the filter had at each instant of the running enabled()

vars == <<cell, created, log_level, crate_levels, level_lock, table_lock, sink,
          max_level, hook, hook_installs, init_calls, rust_log, rust_backtrace,
          stderr_last, aborted, pc, frame, seen>>

-----------------------------------------------------------------------------
(* Bounds *)

NThreads == 2

MaxTable == 2

MaxInits == 3

MaxPayloadLen == 3

AllThreads == 0 .. NThreads

NoThread == NThreads + 1

-----------------------------------------------------------------------------
(* log::Level, ordered by discriminant: Error = 1 .. Trace = 5 *)

Level == {"Error", "Warn", "Info", "Debug", "Trace"}

Ord(l) ==
    CASE l = "Error" -> 1
      [] l = "Warn"  -> 2
      [] l = "Info"  -> 3
      [] l = "Debug" -> 4
      [] l = "Trace" -> 5

\* log::LevelFilter as usize: Off = 0, then the levels
FilterOrd(f) == IF f = "Off" THEN 0 ELSE Ord(f)


-----------------------------------------------------------------------------
(* Strings *)

RECURSIVE CrateName(_)
\* metadata.target().split("::").next().unwrap(): the text before the first "::"
CrateName(s) ==
    IF s = <<>> THEN <<>>
    ELSE IF Len(s) >= 2 /\ s[1] = ":" /\ s[2] = ":" THEN <<>>
    ELSE <<s[1]>> \o CrateName(Tail(s))

\* char::is_whitespace on the chunks of the model
IsWhite(c) == c \in {" ", "\t", "\n", "\r"}

\* line.trim().is_empty()
TrimIsEmpty(line) == \A i \in 1 .. Len(line) : IsWhite(line[i])

RECURSIVE SplitInclusive(_, _)
\* str::split_inclusive('\n'): the pieces of s, each keeping its terminating "\n";
\* cur is the piece being collected
SplitInclusive(s, cur) ==
    IF s = <<>> THEN (IF cur = <<>> THEN <<>> ELSE <<cur>>)
    ELSE IF s[1] = "\n" THEN <<cur \o <<"\n">>>> \o SplitInclusive(Tail(s), <<>>)
    ELSE SplitInclusive(Tail(s), cur \o <<s[1]>>)

\* the closure of str::lines(): strip one trailing "\n", then one trailing "\r"
StripLineEnd(piece) ==
    IF piece # <<>> /\ piece[Len(piece)] = "\n"
    THEN LET l == SubSeq(piece, 1, Len(piece) - 1)
         IN  IF l # <<>> /\ l[Len(l)] = "\r" THEN SubSeq(l, 1, Len(l) - 1) ELSE l
    ELSE piece

\* str::lines()
Lines(s) ==
    LET pieces == SplitInclusive(s, <<>>)
    IN  [i \in 1 .. Len(pieces) |-> StripLineEnd(pieces[i])]

RECURSIVE Join(_, _)
\* [String]::join(sep)
Join(ls, sep) ==
    IF ls = <<>> THEN <<>>
    ELSE IF Len(ls) = 1 THEN ls[1]
    ELSE ls[1] \o sep \o Join(Tail(ls), sep)

\* the literal "\t\t||  " of the format string at line 97
PayloadMarker == <<"\t", "\t", "||", " ", " ">>

\* the literal "\t\t|" of the format string at line 111
TraceMarker == <<"\t", "\t", "|">>

\* the literal at line 106
BacktraceHint ==
    <<" ", " ", "Run", " ", "with", " ", "RUST_BACKTRACE=1", " ", "environment", " ",
      "variable", " ", "to", " ", "display", " ", "backtrace">>

RECURSIVE TrimStart(_)
TrimStart(line) ==
    IF line # <<>> /\ IsWhite(line[1]) THEN TrimStart(Tail(line)) ELSE line

\* mutant of IndentLine: a prefixed line loses its leading white space
IndentLineTrimmed(i, line) ==
    IF TrimIsEmpty(line) THEN <<>>
    ELSE IF i = 0 THEN line
    ELSE PayloadMarker \o TrimStart(line)

\* the match of lines 94-98 on (index from 0, line)
IndentLine(i, line) ==
    IF TrimIsEmpty(line) THEN <<>>
    ELSE IF i = 0 THEN line
    ELSE PayloadMarker \o line

\* lines 91-101: lines().enumerate().map(..).filter(non empty).collect().join("\n")
ReindentPayload(payload) ==
    LET ls     == Lines(payload)
        mapped == [i \in 1 .. Len(ls) |-> IndentLine(i - 1, ls[i])]
        NonEmpty(l) == l # <<>>
    IN  Join(SelectSeq(mapped, NonEmpty), <<"\n">>)

\* lines 109-113: lines().map(|line| "\t\t|" + line).collect().join("\n")
IndentTrace(trace) ==
    LET ls == Lines(trace)
    IN  Join([i \in 1 .. Len(ls) |-> TraceMarker \o ls[i]], <<"\n">>)

\* lines 77-79: the location string, or the placeholder
LocationText(loc) ==
    IF ~loc.known THEN <<"Unknown location">>
    ELSE <<loc.file, ":", loc.line, ":", loc.column>>

\* lines 80-89: the payload downcast to String, else to &str, else the placeholder
PayloadText(p) ==
    IF p.kind = "String" THEN p.text
    ELSE IF p.kind = "str" THEN p.text
    ELSE <<"Unknown Payload">>

\* lines 103-108: the captured backtrace when RUST_BACKTRACE is set, else the hint
TraceText(bt_set, captured) == IF bt_set THEN captured ELSE BacktraceHint

\* lines 114-119: the arguments of the error! record, one field per template hole
PanicMessage(loc, p, bt_set, captured) ==
    [kind     |-> "panic",
     location |-> [style |-> "black", text |-> LocationText(loc)],
     payload  |-> [style |-> "bright_red", text |-> ReindentPayload(PayloadText(p))],
     trace    |-> IndentTrace(TraceText(bt_set, captured))]

\* Logger::colorize
Colorize(level) ==
    CASE level = "Error" -> "red"
      [] level = "Warn"  -> "yellow"
      [] level = "Info"  -> "green"
      [] level = "Debug" -> "blue"
      [] level = "Trace" -> "purple"

\* the line eprintln! writes at lines 53-62 (the timestamp is left out)
FormatLine(level, target, args) ==
    [level |-> level, colour |-> Colorize(level), target |-> target, args |-> args]

-----------------------------------------------------------------------------
(* Level parsing: <log::Level as FromStr>::from_str, used at line 72 *)

Unset == <<"<unset>">>

LowerChar(c) ==
    CASE c = "E" -> "e" [] c = "R" -> "r" [] c = "O" -> "o" [] c = "W" -> "w"
      [] c = "A" -> "a" [] c = "N" -> "n" [] c = "I" -> "i" [] c = "F" -> "f"
      [] c = "D" -> "d" [] c = "B" -> "b" [] c = "U" -> "u" [] c = "G" -> "g"
      [] c = "T" -> "t" [] c = "C" -> "c" [] c = "V" -> "v" [] c = "S" -> "s"
      [] OTHER -> c

\* str::eq_ignore_ascii_case
EqIgnoreCase(a, b) ==
    /\ Len(a) = Len(b)
    /\ \A i \in 1 .. Len(a) : LowerChar(a[i]) = LowerChar(b[i])

\* log's LOG_LEVEL_NAMES; position 1 is "OFF", which is no Level
LevelNames ==
    << <<"O","F","F">>, <<"E","R","R","O","R">>, <<"W","A","R","N">>,
       <<"I","N","F","O">>, <<"D","E","B","U","G">>, <<"T","R","A","C","E">> >>

LevelOfIndex == <<"none", "Error", "Warn", "Info", "Debug", "Trace">>

\* Level::from_str: "none" stands for Err(ParseLevelError)
ParseLevel(s) ==
    IF \E i \in 1 .. Len(LevelNames) : EqIgnoreCase(LevelNames[i], s)
    THEN LevelOfIndex[CHOOSE i \in 1 .. Len(LevelNames) : EqIgnoreCase(LevelNames[i], s)]
    ELSE "none"

\* lines 71-72: var("RUST_LOG").unwrap_or("info"), then parse().unwrap_or(Level::Info)
EnvLevel(env) ==
    LET env_level == IF env = Unset THEN <<"i","n","f","o">> ELSE env
        parsed    == ParseLevel(env_level)
    IN  IF parsed = "none" THEN "Info" ELSE parsed

-----------------------------------------------------------------------------
(* The filter: Logger::enabled, lines 40-48 *)

RECURSIVE ScanCrateLevelsStrict(_, _, _, _)
\* mutant of ScanCrateLevels: the comparisons exclude the threshold itself
ScanCrateLevelsStrict(table, crate_name, level, fallback) ==
    IF table = <<>> THEN Ord(level) < Ord(fallback)
    ELSE IF crate_name = table[1][1] THEN Ord(level) < Ord(table[1][2])
    ELSE ScanCrateLevelsStrict(Tail(table), crate_name, level, fallback)

RECURSIVE ScanCrateLevels(_, _, _, _)
\* the loop of lines 42-46 followed by line 48
ScanCrateLevels(table, crate_name, level, fallback) ==
    IF table = <<>> THEN Ord(level) <= Ord(fallback)
    ELSE IF crate_name = table[1][1] THEN Ord(level) <= Ord(table[1][2])
    ELSE ScanCrateLevels(Tail(table), crate_name, level, fallback)

\* what enabled() returns from the level it read at line 38 and the table it holds at line 39
EnabledResult(level, target, read_level, table) ==
    ScanCrateLevels(table, CrateName(target), level, read_level)


-----------------------------------------------------------------------------
(* Reference definitions of the filter, stated independently of the code *)

\* the part of target before its first "::" (the whole target when it has none)
Component(target) ==
    LET seps == {i \in 1 .. Len(target) - 1 : target[i] = ":" /\ target[i + 1] = ":"}
    IN  IF seps = {} THEN target
        ELSE SubSeq(target, 1, (CHOOSE i \in seps : \A j \in seps : i <= j) - 1)

\* the level of the first entry named comp, or the global threshold
EffectiveThreshold(comp, global, table) ==
    LET hits == {i \in 1 .. Len(table) : table[i][1] = comp}
    IN  IF hits = {} THEN global
        ELSE table[CHOOSE i \in hits : \A j \in hits : i <= j][2]

\* the filter evaluated atomically on one (GlobalThreshold, table) pair
AtomicFilter(level, target, global, table) ==
    Ord(level) <= Ord(EffectiveThreshold(Component(target), global, table))

-----------------------------------------------------------------------------
(* Per-thread frames *)

NoLoc == [known |-> FALSE, file |-> "", line |-> "", column |-> ""]

NoPayload == [kind |-> "none", text |-> <<>>]

NoArgs ==
    [kind     |-> "none",
     location |-> [style |-> "", text |-> <<>>],
     payload  |-> [style |-> "", text |-> <<>>],
     trace    |-> <<>>]

\* the arguments of an application record: its message, unstyled
TextArgs(text) ==
    [kind     |-> "text",
     location |-> [style |-> "", text |-> <<>>],
     payload  |-> [style |-> "", text |-> text],
     trace    |-> <<>>]

NoLine == [level |-> "none", colour |-> "", target |-> <<>>, args |-> NoArgs]

Frame0 ==
    [op         |-> "none",     \* the operation the thread is in, or returned from
     level      |-> "Error",    \* a Level argument, or the record's level
     target     |-> <<>>,       \* the crate name argument, or the record's target
     args       |-> NoArgs,     \* the record's arguments
     read_level |-> "Error",    \* enabled(): the local log_level of line 38
     vec        |-> <<>>,       \* set_crate_log(): the Vec as seen through the guard
     res        |-> FALSE,      \* what enabled() returned
     ret        |-> "none",     \* what init() returned: "Ok" | "Err"
     via        |-> "user",     \* who called enabled(): "user" | "log"
     in_hook    |-> FALSE,      \* running inside the panic hook
     id         |-> 0,          \* init(): the number of this call
     first      |-> FALSE,      \* init(): this call ran the get_or_init closure
     attempts   |-> 0,          \* log(): writes attempted
     payload    |-> NoPayload,  \* the panic's payload
     loc        |-> NoLoc]      \* the panic's location

Goto(t, l) == pc' = [pc EXCEPT ![t] = l]

SetFrame(t, f) == frame' = [frame EXCEPT ![t] = f]

Idle(t) == pc[t] = "idle" /\ ~aborted

At(t, l) == pc[t] = l /\ ~aborted

InEnabled(u) == pc[u] \in {"e_lock1", "e_read", "e_lock2", "e_scan", "e_ret"}

\* ghost: every running enabled() call records the filter's value on the new shared state
Observed(global, table) ==
    [u \in AllThreads |->
        IF InEnabled(u)
        THEN seen[u] \cup {AtomicFilter(frame[u].level, frame[u].target, global, table)}
        ELSE seen[u]]

UnwrapNone ==
    [kind |-> "str", text |-> <<"called Option::unwrap on a None value">>]

SomeLoc == [known |-> TRUE, file |-> "src/lib.rs", line |-> "126", column |-> "18"]

\* a panic starts on thread t: the process-wide hook runs first
StartPanic(t, payload, loc) ==
    /\ Goto(t, "p_hook")
    /\ SetFrame(t, [Frame0 EXCEPT !.op = "panic", !.payload = payload, !.loc = loc])

-----------------------------------------------------------------------------
(* Initial state: the process before any call *)

InitWith(envs, bts) ==
    /\ cell = "uninit"
    /\ created = 0
    /\ log_level = "none"
    /\ crate_levels = <<>>
    /\ level_lock = NoThread
    /\ table_lock = NoThread
    /\ sink = "none"
    /\ max_level = "Off"
    /\ hook = 0
    /\ hook_installs = 0
    /\ init_calls = 0
    /\ rust_log \in envs
    /\ rust_backtrace \in bts
    /\ stderr_last = NoLine
    /\ aborted = FALSE
    /\ pc = [t \in AllThreads |-> "idle"]
    /\ frame = [t \in AllThreads |-> Frame0]
    /\ seen = [t \in AllThreads |-> {}]

\* the process after its first init() returned Ok: the Logger built from RUST_LOG,
\* the hook of that call installed, this logger registered with max level Trace
InitReadyWith(envs, bts) ==
    /\ cell = "init"
    /\ created = 1
    /\ rust_log \in envs
    /\ log_level = EnvLevel(rust_log)
    /\ crate_levels = <<>>
    /\ level_lock = NoThread
    /\ table_lock = NoThread
    /\ sink = "nyaaan"
    /\ max_level = "Trace"
    /\ hook = 1
    /\ hook_installs = 1
    /\ init_calls = 1
    /\ rust_backtrace \in bts
    /\ stderr_last = NoLine
    /\ aborted = FALSE
    /\ pc = [t \in AllThreads |-> "idle"]
    /\ frame = [t \in AllThreads |-> Frame0]
    /\ seen = [t \in AllThreads |-> {}]

-----------------------------------------------------------------------------
(* init(), lines 69-123 *)

\* mutant of CellNeedsInit: the closure also runs on a cell that holds a Logger
CellNeedsInitAgain(c) == c # "running"

\* OnceLock::get_or_init runs its closure only on an empty cell (line 70)
CellNeedsInit(c) == c = "uninit"

\* mutant of InstallsHook: only the call that created the Logger installs the hook
InstallsHookOnce(first) == first

\* line 76: set_hook is called on every init(), whether or not this call created the Logger
InstallsHook(first) == TRUE

\* log::set_logger succeeds only while no logger is registered (line 122)
SetLoggerOk(s) == s = "none"

\* mutant of SetsMaxLevel: set_max_level is called whatever set_logger returned
SetsMaxLevelAlways(ok) == TRUE

\* line 122: .map(|()| set_max_level(Trace)) runs only on Ok
SetsMaxLevel(ok) == ok

CallInit(t) ==
    /\ Idle(t)
    /\ init_calls < MaxInits
    /\ init_calls' = init_calls + 1
    /\ Goto(t, "i_get")
    /\ SetFrame(t, [Frame0 EXCEPT !.op = "init", !.id = init_calls + 1])
    /\ UNCHANGED <<cell, created, log_level, crate_levels, level_lock, table_lock, sink,
                   max_level, hook, hook_installs, rust_log, rust_backtrace,
                   stderr_last, aborted, seen>>

\* line 70: LOGGER.get_or_init: take the value, or become the one initializer;
\* a caller finding the cell being initialized waits
InitGetOrInit(t) ==
    /\ At(t, "i_get")
    /\ IF CellNeedsInit(cell)
       THEN /\ cell' = "running"
            /\ Goto(t, "i_new")
            /\ SetFrame(t, [frame[t] EXCEPT !.first = TRUE])
       ELSE /\ cell = "init"
            /\ Goto(t, "i_hook")
            /\ UNCHANGED <<cell, frame>>
    /\ UNCHANGED <<created, log_level, crate_levels, level_lock, table_lock, sink,
                   max_level, hook, hook_installs, init_calls, rust_log, rust_backtrace,
                   stderr_last, aborted, seen>>

\* lines 71-73: the closure: read RUST_LOG, parse it, Logger::new(level)
InitNew(t) ==
    /\ At(t, "i_new")
    /\ created' = created + 1
    /\ log_level' = EnvLevel(rust_log)
    /\ crate_levels' = <<>>
    /\ cell' = "init"
    /\ Goto(t, "i_hook")
    /\ seen' = Observed(log_level', crate_levels')
    /\ UNCHANGED <<level_lock, table_lock, sink, max_level, hook, hook_installs,
                   init_calls, rust_log, rust_backtrace, stderr_last, aborted, frame>>

\* line 76: std::panic::set_hook
InitSetHook(t) ==
    /\ At(t, "i_hook")
    /\ IF InstallsHook(frame[t].first)
       THEN hook' = frame[t].id /\ hook_installs' = hook_installs + 1
       ELSE UNCHANGED <<hook, hook_installs>>
    /\ Goto(t, "i_reg")
    /\ UNCHANGED <<cell, created, log_level, crate_levels, level_lock, table_lock, sink,
                   max_level, init_calls, rust_log, rust_backtrace, stderr_last,
                   aborted, frame, seen>>

\* line 122: log::set_logger(logger)
InitSetLogger(t) ==
    /\ At(t, "i_reg")
    /\ LET ok == SetLoggerOk(sink)
       IN  /\ sink' = IF ok THEN "nyaaan" ELSE sink
           /\ SetFrame(t, [frame[t] EXCEPT !.ret = IF ok THEN "Ok" ELSE "Err"])
           /\ Goto(t, IF SetsMaxLevel(ok) THEN "i_max" ELSE "idle")
    /\ UNCHANGED <<cell, created, log_level, crate_levels, level_lock, table_lock,
                   max_level, hook, hook_installs, init_calls, rust_log, rust_backtrace,
                   stderr_last, aborted, seen>>

\* line 122: log::set_max_level(LevelFilter::Trace)
InitSetMaxLevel(t) ==
    /\ At(t, "i_max")
    /\ max_level' = "Trace"
    /\ Goto(t, "idle")
    /\ UNCHANGED <<cell, created, log_level, crate_levels, level_lock, table_lock, sink,
                   hook, hook_installs, init_calls, rust_log, rust_backtrace,
                   stderr_last, aborted, frame, seen>>

\* the log facade's single slot taken by another logger of the process
OtherSetLogger(filter) ==
    /\ ~aborted
    /\ sink = "none"
    /\ sink' = "other"
    /\ max_level' = filter
    /\ UNCHANGED <<cell, created, log_level, crate_levels, level_lock, table_lock,
                   hook, hook_installs, init_calls, rust_log, rust_backtrace,
                   stderr_last, aborted, pc, frame, seen>>


-----------------------------------------------------------------------------
(* Variable groups *)

logger == <<cell, created, log_level, crate_levels>>

locks == <<level_lock, table_lock>>

facade == <<sink, max_level>>

hooks == <<hook, hook_installs, init_calls>>

env == <<rust_log, rust_backtrace>>

\* mutant of MutexFree: lock() never waits
MutexAlwaysFree(holder) == TRUE

\* Mutex::lock returns only while no thread holds the guard (the fields of lines 7-8)
MutexFree(holder) == holder = NoThread

-----------------------------------------------------------------------------
(* set_level(), lines 125-127 and 21-23 *)

CallSetLevel(t, lv) ==
    /\ Idle(t)
    /\ IF cell = "init"
       THEN /\ Goto(t, "sl_lock")
            /\ SetFrame(t, [Frame0 EXCEPT !.op = "set_level", !.level = lv])
       ELSE StartPanic(t, UnwrapNone, SomeLoc)
    /\ UNCHANGED <<logger, locks, facade, hooks, env, stderr_last, aborted, seen>>

\* line 22: self.log_level.lock().unwrap()
SetLevelLock(t) ==
    /\ At(t, "sl_lock")
    /\ MutexFree(level_lock)
    /\ level_lock' = t
    /\ Goto(t, "sl_write")
    /\ UNCHANGED <<logger, table_lock, facade, hooks, env, stderr_last, aborted, frame, seen>>

\* line 22: the assignment through the guard, which is then dropped
SetLevelWrite(t) ==
    /\ At(t, "sl_write")
    /\ log_level' = frame[t].level
    /\ level_lock' = NoThread
    /\ Goto(t, "idle")
    /\ SetFrame(t, [Frame0 EXCEPT !.op = "set_level"])
    /\ seen' = Observed(log_level', crate_levels)
    /\ UNCHANGED <<cell, created, crate_levels, table_lock, facade, hooks, env,
                   stderr_last, aborted>>

-----------------------------------------------------------------------------
(* set_crate_log(), lines 129-137 *)

\* mutant of Push: an entry of the same name is replaced in place
PushReplacing(vec, entry) ==
    IF \E i \in 1 .. Len(vec) : vec[i][1] = entry[1]
    THEN [i \in 1 .. Len(vec) |-> IF vec[i][1] = entry[1] THEN entry ELSE vec[i]]
    ELSE Append(vec, entry)

\* Vec::push (line 136)
Push(vec, entry) == Append(vec, entry)

\* threads inside set_crate_log
Registering == {u \in AllThreads : pc[u] \in {"sc_lock", "sc_push"}}

CallSetCrateLog(t, name, lv) ==
    /\ Idle(t)
    /\ Len(crate_levels) + Cardinality(Registering) < MaxTable
    /\ IF cell = "init"
       THEN /\ Goto(t, "sc_lock")
            /\ SetFrame(t, [Frame0 EXCEPT !.op = "set_crate_log", !.target = name,
                                          !.level = lv])
       ELSE StartPanic(t, UnwrapNone, SomeLoc)
    /\ UNCHANGED <<logger, locks, facade, hooks, env, stderr_last, aborted, seen>>

\* lines 133-135: crate_levels.lock().unwrap(): the guard gives access to the Vec
SetCrateLogLock(t) ==
    /\ At(t, "sc_lock")
    /\ MutexFree(table_lock)
    /\ table_lock' = t
    /\ Goto(t, "sc_push")
    /\ SetFrame(t, [frame[t] EXCEPT !.vec = crate_levels])
    /\ UNCHANGED <<logger, level_lock, facade, hooks, env, stderr_last, aborted, seen>>

\* line 136: push through the guard, which is then dropped
SetCrateLogPush(t) ==
    /\ At(t, "sc_push")
    /\ crate_levels' = Push(frame[t].vec, <<frame[t].target, frame[t].level>>)
    /\ table_lock' = NoThread
    /\ Goto(t, "idle")
    /\ SetFrame(t, [Frame0 EXCEPT !.op = "set_crate_log"])
    /\ seen' = Observed(log_level, crate_levels')
    /\ UNCHANGED <<cell, created, log_level, level_lock, facade, hooks, env,
                   stderr_last, aborted>>

-----------------------------------------------------------------------------
(* Logger::enabled, lines 37-49 *)

\* mutant of GuardAfterRead: the guard is bound to a local and lives to the return
GuardKept(t) == t

\* line 38: the guard is a temporary, dropped at the end of the statement
GuardAfterRead(t) == NoThread

\* entering enabled() with frame f: the ghost starts with the filter's current value
EnterEnabled(t, f) ==
    /\ Goto(t, "e_lock1")
    /\ SetFrame(t, f)
    /\ seen' = [seen EXCEPT ![t] =
                   {AtomicFilter(f.level, f.target, log_level, crate_levels)}]

CallEnabled(t, lv, target) ==
    /\ Idle(t)
    /\ IF cell = "init"
       THEN EnterEnabled(t, [Frame0 EXCEPT !.op = "enabled", !.level = lv,
                                           !.target = target, !.via = "user"])
       ELSE StartPanic(t, UnwrapNone, SomeLoc) /\ UNCHANGED seen
    /\ UNCHANGED <<logger, locks, facade, hooks, env, stderr_last, aborted>>

\* line 38: self.log_level.lock().unwrap()
EnabledLockLevel(t) ==
    /\ At(t, "e_lock1")
    /\ MutexFree(level_lock)
    /\ level_lock' = t
    /\ Goto(t, "e_read")
    /\ UNCHANGED <<logger, table_lock, facade, hooks, env, stderr_last, aborted, frame, seen>>

\* line 38: copy the level out of the guard
EnabledReadLevel(t) ==
    /\ At(t, "e_read")
    /\ SetFrame(t, [frame[t] EXCEPT !.read_level = log_level])
    /\ level_lock' = GuardAfterRead(t)
    /\ Goto(t, "e_lock2")
    /\ UNCHANGED <<logger, table_lock, facade, hooks, env, stderr_last, aborted, seen>>

\* line 39: self.crate_levels.lock().unwrap()
EnabledLockTable(t) ==
    /\ At(t, "e_lock2")
    /\ MutexFree(table_lock)
    /\ table_lock' = t
    /\ Goto(t, "e_scan")
    /\ UNCHANGED <<logger, level_lock, facade, hooks, env, stderr_last, aborted, frame, seen>>

\* lines 40-48: the scan and the return value; the guards still held are dropped
EnabledScan(t) ==
    /\ At(t, "e_scan")
    /\ SetFrame(t, [frame[t] EXCEPT !.res =
           EnabledResult(frame[t].level, frame[t].target, frame[t].read_level,
                         crate_levels)])
    /\ table_lock' = NoThread
    /\ level_lock' = IF level_lock = t THEN NoThread ELSE level_lock
    /\ Goto(t, "e_ret")
    /\ UNCHANGED <<logger, facade, hooks, env, stderr_last, aborted, seen>>

\* where a thread goes when Logger::log returns: the hook ends and the thread
\* unwinds, or the caller continues
AfterLog(t) == IF frame[t].in_hook THEN "dead" ELSE "idle"

\* enabled() returns: to the user, or into log() at line 52
EnabledReturn(t) ==
    /\ At(t, "e_ret")
    /\ IF frame[t].via = "user"
       THEN /\ Goto(t, "idle")
            /\ SetFrame(t, [Frame0 EXCEPT !.op = "enabled", !.res = frame[t].res])
       ELSE IF frame[t].res
            THEN Goto(t, "l_write") /\ UNCHANGED frame
            ELSE /\ Goto(t, AfterLog(t))
                 /\ SetFrame(t, [Frame0 EXCEPT !.op = "log", !.res = FALSE,
                                               !.in_hook = frame[t].in_hook])
    /\ UNCHANGED <<logger, locks, facade, hooks, env, stderr_last, aborted, seen>>

-----------------------------------------------------------------------------
(* Logger::log, lines 51-64 *)

CallLog(t, lv, target, text) ==
    /\ Idle(t)
    /\ IF cell = "init"
       THEN EnterEnabled(t, [Frame0 EXCEPT !.op = "log", !.level = lv,
                                           !.target = target, !.via = "log",
                                           !.args = TextArgs(text)])
       ELSE StartPanic(t, UnwrapNone, SomeLoc) /\ UNCHANGED seen
    /\ UNCHANGED <<logger, locks, facade, hooks, env, stderr_last, aborted>>

PrintFailed == [kind |-> "String", text |-> <<"failed printing to stderr">>]

\* lines 53-62: eprintln!, which panics when the write to stderr fails
LogWrite(t) ==
    /\ At(t, "l_write")
    /\ \E ok \in BOOLEAN :
          IF ok
          THEN /\ stderr_last' = FormatLine(frame[t].level, frame[t].target, frame[t].args)
               /\ Goto(t, AfterLog(t))
               /\ SetFrame(t, [Frame0 EXCEPT !.op = "log", !.res = TRUE, !.attempts = 1,
                                             !.in_hook = frame[t].in_hook])
               /\ UNCHANGED aborted
          ELSE IF frame[t].in_hook
               THEN /\ aborted' = TRUE
                    /\ SetFrame(t, [frame[t] EXCEPT !.attempts = 1])
                    /\ UNCHANGED <<stderr_last, pc>>
               ELSE /\ StartPanic(t, PrintFailed, SomeLoc)
                    /\ UNCHANGED <<stderr_last, aborted>>
    /\ UNCHANGED <<logger, locks, facade, hooks, env, seen>>

-----------------------------------------------------------------------------
(* Panics and the hook, lines 76-120 *)

\* what Backtrace::capture().to_string() may give when RUST_BACKTRACE is set
Backtraces == {<<"disabled backtrace">>, <<"0: main", "\n", "1: start", "\n">>}

\* the target of the record error! builds: module_path!() of this crate
HookTarget == <<"nyaaan">>

\* application code panics on thread t
Panic(t, payload, loc) ==
    /\ Idle(t)
    /\ StartPanic(t, payload, loc)
    /\ UNCHANGED <<logger, locks, facade, hooks, env, stderr_last, aborted, seen>>

\* no init() has installed a hook: the default hook prints and returns
DefaultHook(t) ==
    /\ At(t, "p_hook")
    /\ hook = 0
    /\ Goto(t, "dead")
    /\ UNCHANGED <<logger, locks, facade, hooks, env, stderr_last, aborted, frame, seen>>

\* lines 77-119: the closure builds the message and calls error!, which hands the
\* record to the registered logger when the facade's max level lets Error through
PanicHook(t) ==
    /\ At(t, "p_hook")
    /\ hook # 0
    /\ \E captured \in Backtraces :
          LET msg == PanicMessage(frame[t].loc, frame[t].payload, rust_backtrace, captured)
              f   == [frame[t] EXCEPT !.level = "Error", !.target = HookTarget,
                                      !.args = msg, !.via = "log", !.in_hook = TRUE,
                                      !.attempts = 0]
          IN  IF FilterOrd("Error") <= FilterOrd(max_level) /\ sink = "nyaaan"
              THEN EnterEnabled(t, f)
              ELSE Goto(t, "dead") /\ SetFrame(t, f) /\ UNCHANGED seen
    /\ UNCHANGED <<logger, locks, facade, hooks, env, stderr_last, aborted>>


-----------------------------------------------------------------------------
(* Inputs *)

\* values of RUST_LOG: absent, a level in upper and mixed case, "off", an unknown word
EnvValues ==
    {Unset, <<"W","A","R","N">>, <<"d","E","b","u","g">>, <<"o","f","f">>,
     <<"v","e","r","b","o","s","e">>}

Names == {<<"a">>, <<"b">>}

\* the levels registered for crates: the most and the least severe, and one between
RegLevels == {"Error", "Info", "Trace"}

Targets == {<<"a">>, <<"a", ":", ":", "m">>, <<"b", ":", "a">>, <<"c", ":", ":", "a">>}

-----------------------------------------------------------------------------
(* The filter used from one thread: init, set_level, set_crate_log, enabled *)

InitSteps(t) ==
    \/ CallInit(t)
    \/ InitGetOrInit(t)
    \/ InitNew(t)
    \/ InitSetHook(t)
    \/ InitSetLogger(t)
    \/ InitSetMaxLevel(t)

SetLevelSteps(t) ==
    \/ SetLevelLock(t)
    \/ SetLevelWrite(t)

SetCrateLogSteps(t) ==
    \/ SetCrateLogLock(t)
    \/ SetCrateLogPush(t)

EnabledSteps(t) ==
    \/ EnabledLockLevel(t)
    \/ EnabledReadLevel(t)
    \/ EnabledLockTable(t)
    \/ EnabledScan(t)
    \/ EnabledReturn(t)

InitFilter == InitReadyWith({Unset, <<"W","A","R","N">>}, {FALSE})

NextFilter ==
    \E t \in {0} :
        \/ \E lv \in Level : CallSetLevel(t, lv)
        \/ SetLevelSteps(t)
        \/ \E name \in Names, lv \in RegLevels : CallSetCrateLog(t, name, lv)
        \/ SetCrateLogSteps(t)
        \/ \E lv \in Level, target \in Targets : CallEnabled(t, lv, target)
        \/ EnabledSteps(t)

SpecFilter == InitFilter /\ [][NextFilter]_vars


-----------------------------------------------------------------------------
(* N writer threads, each registering one crate of its own, beside a thread that
   calls set_level and enabled *)

Writers == 1 .. NThreads

WriterNames == <<"a", "b", "c", "d">>

NameOf(t) == <<WriterNames[t]>>

\* writers alternate between the two registered levels
LevelOf(t) == IF t % 2 = 1 THEN "Debug" ELSE "Error"

InitRace == InitReadyWith({Unset}, {FALSE})

\* a writer's one call: set_crate_log(its name, its level)
WriterCall(t) ==
    /\ frame[t].op = "none"
    /\ CallSetCrateLog(t, NameOf(t), LevelOf(t))

NextRace ==
    \/ \E t \in Writers :
          \/ WriterCall(t)
          \/ SetCrateLogSteps(t)
    \/ \E t \in {0} :
          \/ \E lv \in {"Error", "Trace"} : CallSetLevel(t, lv)
          \/ SetLevelSteps(t)
          \/ \E target \in {<<"a">>, <<"b", ":", ":", "m">>} : CallEnabled(t, "Info", target)
          \/ EnabledSteps(t)

SpecRace == InitRace /\ [][NextRace]_vars

-----------------------------------------------------------------------------
(* Two threads calling set_level, set_crate_log and enabled concurrently *)

InitConc == InitReadyWith({Unset}, {FALSE})

ConcSteps(t) ==
    \/ SetLevelSteps(t)
    \/ SetCrateLogSteps(t)
    \/ EnabledSteps(t)

NextConc ==
    \E t \in {0, 1} :
        \/ \E lv \in {"Error", "Trace"} : CallSetLevel(t, lv)
        \/ \E lv \in {"Error", "Trace"} : CallSetCrateLog(t, <<"a">>, lv)
        \/ \E target \in {<<"a">>, <<"b">>} : CallEnabled(t, "Info", target)
        \/ ConcSteps(t)

SpecConc == InitConc /\ [][NextConc]_vars

-----------------------------------------------------------------------------
(* The lifecycle: two threads calling init, set_level and set_crate_log, in a
   process where another logger may take the facade's slot *)

InitLife == InitWith(EnvValues, {FALSE})

NextLife ==
    \/ \E t \in {0, 1} :
          \/ InitSteps(t)
          \/ CallSetLevel(t, "Error")
          \/ SetLevelSteps(t)
          \/ CallSetCrateLog(t, <<"a">>, "Trace")
          \/ SetCrateLogSteps(t)
          \/ DefaultHook(t)
    \/ OtherSetLogger("Info")

SpecLife == InitLife /\ [][NextLife]_vars

-----------------------------------------------------------------------------
(* Emitting: one thread calling log and set_level; a failed write panics, and the
   panic runs the hook *)

InitEmit == InitReadyWith({Unset}, {FALSE})

NextEmit ==
    \E t \in {0} :
        \/ \E lv \in Level, target \in {<<"a">>, <<"b", ":", ":", "m">>} :
              CallLog(t, lv, target, <<"started">>)
        \/ \E lv \in {"Error", "Warn", "Trace"} : CallSetLevel(t, lv)
        \/ SetLevelSteps(t)
        \/ CallSetCrateLog(t, <<"b">>, "Debug")
        \/ SetCrateLogSteps(t)
        \/ EnabledSteps(t)
        \/ LogWrite(t)
        \/ PanicHook(t)

SpecEmit == InitEmit /\ [][NextEmit]_vars

-----------------------------------------------------------------------------
(* The panic hook: one thread panics with a payload and a location *)

PayloadAlphabet == {"x", " ", "\n", "\r"}

SeqsUpTo(S, n) == UNION {[1 .. k -> S] : k \in 0 .. n}

\* the message "boom\n  detail"
BoomDetail == <<"boom", "\n", " ", " ", "detail">>

HookPayloads ==
    {[kind |-> "String", text |-> x] : x \in SeqsUpTo(PayloadAlphabet, MaxPayloadLen) \cup {BoomDetail}}
    \cup {[kind |-> "str", text |-> x] : x \in {BoomDetail, <<"\n", "boom">>}}
    \cup {[kind |-> "other", text |-> <<>>]}

InitHook == InitReadyWith({Unset}, BOOLEAN)

NextHook ==
    \E t \in {0} :
        \/ \E payload \in HookPayloads, loc \in {NoLoc, SomeLoc} : Panic(t, payload, loc)
        \/ PanicHook(t)
        \/ EnabledSteps(t)
        \/ LogWrite(t)

SpecHook == InitHook /\ [][NextHook]_vars

-----------------------------------------------------------------------------
(* C1 *)

\* C1: when enabled() returns after any sequence of set_level and set_crate_log
\* calls, its result is TRUE exactly when the record's level is at least as severe
\* as (ordinal <=) the effective threshold of the target's component: the level of
\* the first entry named like the text before the first "::", or GlobalThreshold
\* when no entry matches; the threshold itself is let through.
C1_EnabledIffAtLeastThreshold ==
    \A t \in AllThreads :
        pc[t] = "e_ret" =>
            (frame[t].res <=>
                Ord(frame[t].level) <=
                    Ord(EffectiveThreshold(Component(frame[t].target), log_level,
                                           crate_levels)))

\* enabled() returned TRUE for an Info record of a::m, which the second entry
\* (a, Info) lets through at the boundary although GlobalThreshold Error would not
C1_Witness ==
    /\ pc[0] = "e_ret"
    /\ frame[0].target = <<"a", ":", ":", "m">>
    /\ frame[0].level = "Info"
    /\ frame[0].res = TRUE
    /\ log_level = "Error"
    /\ crate_levels = << <<<<"b">>, "Error">>, <<<<"a">>, "Info">> >>

-----------------------------------------------------------------------------
(* C2 *)

HasOverride(c, table) == \E i \in 1 .. Len(table) : table[i][1] = c

\* C2: registration is append-only and the first match wins: every step that
\* changes the table appends exactly one entry and keeps the earlier ones; no step
\* changes, for a component that has an override, its effective threshold or what
\* enabled() computes for it; and with (C, Info) registered before (C, Error) the
\* filter of C is the one of Info.
C2_AppendOnlyFirstMatchWins ==
    /\ [][ /\ crate_levels' # crate_levels =>
                /\ Len(crate_levels') = Len(crate_levels) + 1
                /\ SubSeq(crate_levels', 1, Len(crate_levels)) = crate_levels
           /\ \A c \in Names :
                HasOverride(c, crate_levels) =>
                    /\ EffectiveThreshold(c, log_level', crate_levels')
                         = EffectiveThreshold(c, log_level, crate_levels)
                    /\ \A lv \in Level :
                         EnabledResult(lv, c, log_level', crate_levels')
                           = EnabledResult(lv, c, log_level, crate_levels)
         ]_vars
    /\ [](\A c \in Names :
            (/\ Len(crate_levels) >= 2
             /\ crate_levels[1] = <<c, "Info">>
             /\ crate_levels[2] = <<c, "Error">>) =>
                /\ EnabledResult("Info", c, log_level, crate_levels)
                /\ ~EnabledResult("Debug", c, log_level, crate_levels))

\* (a, Info) then (a, Error) were registered and set_level(Trace) came after them
C2_Witness ==
    /\ crate_levels = << <<<<"a">>, "Info">>, <<<<"a">>, "Error">> >>
    /\ log_level = "Trace"
    /\ frame[0].op = "set_level"
    /\ pc[0] = "idle"


-----------------------------------------------------------------------------
(* C3 *)

Done(t) == pc[t] = "idle" /\ frame[t].op = "set_crate_log"

Occurrences(entry) == {i \in 1 .. Len(crate_levels) : crate_levels[i] = entry}

\* C3: with N threads each calling set_crate_log once with a name of its own,
\* under every interleaving with each other and with set_level and enabled calls,
\* the table holds, for every writer that has returned, its entry exactly once with
\* the level it registered, and nothing else: once all N returned, all N entries.
C3_NoLostUpdates ==
    /\ \A t \in Writers :
          Done(t) => Cardinality(Occurrences(<<NameOf(t), LevelOf(t)>>)) = 1
    /\ \A i \in 1 .. Len(crate_levels) :
          \E t \in Writers : crate_levels[i] = <<NameOf(t), LevelOf(t)>>
    /\ Len(crate_levels) = Cardinality({t \in Writers : Done(t)})
    /\ (\A t \in Writers : Done(t)) => Len(crate_levels) = NThreads

\* all writers returned, the last writer's entry first: they ran out of call order,
\* while the other thread is inside enabled()
C3_Witness ==
    /\ \A t \in Writers : Done(t)
    /\ crate_levels[1] = <<NameOf(NThreads), LevelOf(NThreads)>>
    /\ pc[0] = "e_lock2"

-----------------------------------------------------------------------------
(* C10 *)

\* C10: enabled() never holds the two locks together (nor does any operation), no
\* state has every running operation waiting for a lock, and under every
\* interleaving with set_level and set_crate_log the value enabled() returns is a
\* value the atomically evaluated filter had at some instant between the call's
\* start and its return.
C10_SeparateLocksLinearizable ==
    /\ \A t \in AllThreads : ~(level_lock = t /\ table_lock = t)
    /\ (\E t \in AllThreads : pc[t] # "idle") => \E t \in AllThreads : ENABLED ConcSteps(t)
    /\ \A t \in AllThreads : pc[t] = "e_ret" => frame[t].res \in seen[t]

\* enabled() returns a value that differs from the filter on the state at its return,
\* having read the level before a concurrent set_level
C10_Witness ==
    /\ pc[0] = "e_ret"
    /\ frame[0].res # AtomicFilter(frame[0].level, frame[0].target, log_level, crate_levels)
    /\ frame[0].read_level # log_level
    /\ seen[0] = {TRUE, FALSE}


-----------------------------------------------------------------------------
(* C4 *)

\* the level RUST_LOG stands for, value by value
ExpectedEnvLevel(e) ==
    CASE e = Unset -> "Info"
      [] e = <<"W","A","R","N">> -> "Warn"
      [] e = <<"d","E","b","u","g">> -> "Debug"
      [] e = <<"o","f","f">> -> "Info"
      [] e = <<"v","e","r","b","o","s","e">> -> "Info"

\* C4: across every interleaving of init() calls at most one Logger is ever
\* created; the step that creates it is the first and only one, and gives it the
\* level of RUST_LOG (Info when absent or unparsable) and an empty table; once it
\* exists, GlobalThreshold changes only by the write of a set_level call and the
\* table only by the push of a set_crate_log call, so no later init() resets either.
C4_SingletonCreatedOnce ==
    /\ [](created <= 1 /\ (cell = "init" <=> created = 1))
    /\ [][ /\ created' # created =>
                /\ created = 0 /\ created' = 1
                /\ log_level' = ExpectedEnvLevel(rust_log)
                /\ crate_levels' = <<>>
           /\ (created = 1 /\ log_level' # log_level) =>
                \E t \in AllThreads :
                    pc[t] = "sl_write" /\ pc'[t] = "idle" /\ log_level' = frame[t].level
           /\ (created = 1 /\ crate_levels' # crate_levels) =>
                \E t \in AllThreads :
                    /\ pc[t] = "sc_push" /\ pc'[t] = "idle"
                    /\ crate_levels' = Append(crate_levels, <<frame[t].target, frame[t].level>>)
         ]_vars

\* a second init() returned while the threshold set by set_level and a registered
\* entry are still in place
C4_Witness ==
    /\ created = 1
    /\ \E t \in AllThreads :
          /\ pc[t] = "idle" /\ frame[t].op = "init" /\ frame[t].id >= 2
          /\ ~frame[t].first
    /\ rust_log = <<"W","A","R","N">>
    /\ log_level = "Error"
    /\ crate_levels = << <<<<"a">>, "Trace">> >>

-----------------------------------------------------------------------------
(* C5 *)

Returning(t, r) == pc[t] = "i_reg" /\ pc'[t] # "i_reg" /\ frame'[t].ret = r

\* C5: init() returns Err whenever another sink holds the facade's slot; a
\* registered sink is never replaced, so only the first registration succeeds; the
\* step on which init() fails leaves the sink, the facade's max level, the
\* singleton's GlobalThreshold and table as they were; no step of an init() call
\* changes the threshold or table of an existing singleton; and the facade's max
\* level becomes Trace only in an init() call that returned Ok.
C5_FailingInitKeepsState ==
    [][ /\ \A t \in AllThreads :
              /\ (pc[t] = "i_reg" /\ pc'[t] # "i_reg" /\ sink = "other") => frame'[t].ret = "Err"
              /\ Returning(t, "Err") =>
                    /\ sink # "none"
                    /\ UNCHANGED <<sink, max_level, log_level, crate_levels, cell, created>>
                    /\ pc'[t] = "idle"
              /\ Returning(t, "Ok") => sink = "none" /\ sink' = "nyaaan"
              /\ (pc[t] \in {"i_get", "i_hook", "i_reg", "i_max"} /\ pc'[t] # pc[t] /\ cell = "init")
                    => UNCHANGED <<log_level, crate_levels>>
        /\ sink # "none" => sink' = sink
        /\ max_level' # max_level =>
              \/ sink = "none" /\ sink' = "other"
              \/ /\ max_level' = "Trace"
                 /\ \E t \in AllThreads :
                       pc[t] = "i_max" /\ pc'[t] = "idle" /\ frame[t].ret = "Ok"
      ]_vars

\* init() returned Err because the other sink was registered first; the singleton
\* it found keeps the threshold and the entry set before the call
C5_Witness ==
    /\ sink = "other"
    /\ max_level = "Info"
    /\ \E t \in AllThreads :
          /\ pc[t] = "idle" /\ frame[t].op = "init" /\ frame[t].ret = "Err"
          /\ ~frame[t].first
    /\ rust_log = Unset
    /\ log_level = "Error"
    /\ crate_levels = << <<<<"a">>, "Trace">> >>

-----------------------------------------------------------------------------
(* C8 *)

BeforeHook == {t \in AllThreads : pc[t] \in {"i_get", "i_new", "i_hook"}}

\* C8: every init() call installs the hook, whether it created the singleton or
\* found it, and whether its registration then succeeds or fails: the set_hook
\* step always makes the calling init() the owner of the process-wide hook, it comes
\* before the registration step, the hook changes by no other step, and every
\* init() call at or past its registration has installed once; when one thread
\* alone has made the calls, the hook after a call is that call's, the most recent.
C8_HookInstalledByEveryInit ==
    /\ [](hook_installs + Cardinality(BeforeHook) = init_calls)
    /\ [](\A t \in AllThreads :
             (/\ \A u \in AllThreads \ {t} : frame[u].op = "none"
              /\ frame[t].op = "init" /\ pc[t] \in {"i_reg", "i_max", "idle"}) =>
                 hook = frame[t].id /\ frame[t].id = init_calls)
    /\ [](\A t \in AllThreads :
             (frame[t].op = "init" /\ pc[t] \in {"i_reg", "i_max", "idle"}) =>
                 hook # 0 /\ hook_installs >= 1)
    /\ [][ /\ \A t \in AllThreads :
                (pc[t] = "i_hook" /\ pc'[t] # "i_hook") =>
                    /\ pc'[t] = "i_reg"
                    /\ hook' = frame[t].id
                    /\ hook_installs' = hook_installs + 1
           /\ hook' # hook =>
                \E t \in AllThreads : pc[t] = "i_hook" /\ hook' = frame[t].id
         ]_vars

\* the third init() call, which found the singleton and returned Err, owns the hook
C8_Witness ==
    \E t \in AllThreads :
        /\ pc[t] = "idle" /\ frame[t].op = "init"
        /\ frame[t].ret = "Err" /\ ~frame[t].first
        /\ frame[t].id = 3
        /\ hook = 3
        /\ hook_installs = 3


-----------------------------------------------------------------------------
(* C6 *)

\* C6: emit (Logger::log) never propagates a failure to its caller: when the
\* record is not enabled it returns having written nothing, when it is enabled
\* the write step is followed by a normal return whether the write succeeded or
\* failed, and neither changes GlobalThreshold or the table.
C6_EmitNeverPropagates ==
    [][ \A t \in AllThreads :
          /\ (pc[t] = "e_ret" /\ frame[t].via = "log" /\ ~frame[t].res /\ pc'[t] # "e_ret") =>
                /\ pc'[t] = AfterLog(t)
                /\ frame'[t].attempts = 0
                /\ UNCHANGED <<stderr_last, log_level, crate_levels>>
          /\ (pc[t] = "l_write" /\ <<pc[t], frame[t], aborted>> # <<pc'[t], frame'[t], aborted'>>) =>
                /\ pc'[t] = AfterLog(t)
                /\ frame'[t].op = "log"
                /\ frame'[t].attempts = 1
                /\ ~aborted'
                /\ UNCHANGED <<log_level, crate_levels>>
      ]_vars

-----------------------------------------------------------------------------
(* C7 *)

\* C7: the hook never raises a secondary fault: whatever the location, the
\* payload, the backtrace toggle and the outcome of the write, a thread inside the
\* hook handles one Error record and the process is never aborted by a panic
\* raised while the hook runs.
C7_HookNeverFaults ==
    /\ ~aborted
    /\ \A t \in AllThreads : frame[t].in_hook => frame[t].level = "Error"

-----------------------------------------------------------------------------
(* C9 *)

\* the positions at which the lines of text start
LineStarts(text) ==
    {s \in 1 .. Len(text) : s = 1 \/ text[s - 1] = "\n"}

\* the line starting at s: up to the next line break, without a "\r" before it
LineAt(text, s) ==
    LET stops == {i \in s .. Len(text) : text[i] = "\n"}
        stop  == IF stops = {} THEN Len(text) + 1
                 ELSE CHOOSE i \in stops : \A j \in stops : i <= j
        body  == SubSeq(text, s, stop - 1)
    IN  IF stop <= Len(text) /\ body # <<>> /\ body[Len(body)] = "\r"
        THEN SubSeq(body, 1, Len(body) - 1)
        ELSE body

Blank(line) == \A i \in 1 .. Len(line) : line[i] \in {" ", "\t", "\r", "\n"}

\* the starts of the lines that are kept, in order
KeptStarts(text) ==
    LET kept == {s \in LineStarts(text) : ~Blank(LineAt(text, s))}
    IN  [k \in 1 .. Cardinality(kept) |->
            CHOOSE s \in kept : Cardinality({r \in kept : r < s}) = k - 1]

\* the rendering of a payload: blank lines dropped, the payload's line 0 verbatim,
\* every other kept line verbatim after the marker
ExpectedRendering(text) ==
    LET ks == KeptStarts(text)
    IN  [k \in 1 .. Len(ks) |->
            IF ks[k] = 1 THEN LineAt(text, 1)
            ELSE <<"\t", "\t", "||", " ", " ">> \o LineAt(text, ks[k])]

InHookWithMessage(t) == frame[t].in_hook /\ frame[t].args.kind = "panic"

\* C9: the hook splits the textual payload on line breaks, drops every
\* line that is empty or white space only, keeps line 0 of the payload unprefixed,
\* puts the marker "\t\t||  " before every other kept line, left as it is, and
\* rejoins with newlines; for "boom\n  detail" with the backtrace toggle absent the
\* Error record's payload is "boom" then "\t\t||    detail" (the marker and the line
\* with its two leading spaces) and its trace section is "\t\t|" followed by the
\* instructional string.
C9_ReindentAmended ==
    \A t \in AllThreads :
        InHookWithMessage(t) =>
            /\ frame[t].level = "Error"
            /\ frame[t].payload.kind \in {"String", "str"} =>
                  Lines(frame[t].args.payload.text) = ExpectedRendering(frame[t].payload.text)
            /\ frame[t].payload.text = BoomDetail =>
                  frame[t].args.payload.text =
                      <<"boom", "\n", "\t", "\t", "||", " ", " ", " ", " ", "detail">>
            /\ ~rust_backtrace =>
                  frame[t].args.trace =
                      <<"\t", "\t", "|", " ", " ", "Run", " ", "with", " ",
                        "RUST_BACKTRACE=1", " ", "environment", " ", "variable", " ",
                        "to", " ", "display", " ", "backtrace">>

\* the hook has built the record for "boom\n  detail" without the backtrace toggle
\* and is about to write it
C9_Witness ==
    /\ pc[0] = "l_write"
    /\ InHookWithMessage(0)
    /\ frame[0].payload = [kind |-> "String", text |-> BoomDetail]
    /\ ~rust_backtrace

\* C9, the example as the specification words it: for "boom\n  detail" the
\* rendered payload has "boom" as its first line and "\t\t||  detail" as its
\* second line.
C9_ReindentAsClaimed ==
    \A t \in AllThreads :
        (InHookWithMessage(t) /\ frame[t].payload.text = BoomDetail) =>
            Lines(frame[t].args.payload.text) =
                << <<"boom">>, <<"\t", "\t", "||", " ", " ", "detail">> >>

=============================================================================
